---- MODULE Spec2Model ----
(***************************************************************************)
(* Unlabelled Weisfeiler-Lehman graph kernel (wlgk.py).                    *)
(*                                                                         *)
(* A graph is a record [directed, n, edges]: nodes are 1..n, edges is a    *)
(* set of pairs <<u, v>> (an arc u -> v when directed, an edge {u, v}      *)
(* stored with u < v when undirected); graphs are simple (no self-loops,   *)
(* no parallel edges).  A colour is a Python hash value; the builtin hash  *)
(* is modelled as a collision-free function: the hash of a value is a      *)
(* self-delimiting sequence of naturals that encodes the value, so equal   *)
(* hashes mean equal hashed values, and hash values are totally ordered.   *)
(* A dict is a TLA+ function whose domain is its key set.  The float       *)
(* returned by wlgk is kept exact as a record [kind, dot, sq1, sq2] that   *)
(* stands for dot / (sqrt(sq1) * sqrt(sq2)); floating-point rounding is    *)
(* not modelled.                                                           *)
(***************************************************************************)
EXTENDS Integers, Sequences, FiniteSets, TLC

\* Bounds of the explored inputs.
\* MaxNodes and MaxEdges bound the first graph, MaxProbeNodes the nodes of a
\* second graph that is not the first one again, MaxIter num_iterations.
MaxNodes == 3
MaxEdges == 3
MaxProbeNodes == 2
MaxIter == 2

\* G1, G2, num_iterations: the arguments of wlgk.
\* pc: where control is: "wlgk" (entry), "initial", "loop", "nodes" (inside
\*     _compute_colour_counts), "compare", "done" (returned).
\* cur: which call of _compute_colour_counts is running (1 for G1, 2 for G2).
\* it: the rounds of the loop over range(num_iterations) completed.
\* colour_counts, node_colours, new_node_colours: locals of
\*     _compute_colour_counts.
\* g1_colour_count, g2_colour_count: locals of wlgk.
\* ret: the value wlgk returned.
VARIABLES G1, G2, num_iterations, pc, cur, it, colour_counts, node_colours,
          new_node_colours, g1_colour_count, g2_colour_count, ret

vars == <<G1, G2, num_iterations, pc, cur, it, colour_counts, node_colours,
          new_node_colours, g1_colour_count, g2_colour_count, ret>>

----------------------------------------------------------------------------
(* The graph abstraction (networkx Graph / DiGraph).                       *)

Nodes(G) == 1 .. G.n

Neighbors(G, node) ==
    {u \in Nodes(G) : <<u, node>> \in G.edges \/ <<node, u>> \in G.edges}

Predecessors(G, node) == {u \in Nodes(G) : <<u, node>> \in G.edges}

Successors(G, node) == {u \in Nodes(G) : <<node, u>> \in G.edges}

Degree(G, node) == Cardinality(Neighbors(G, node))

InDegree(G, node) == Cardinality(Predecessors(G, node))

OutDegree(G, node) == Cardinality(Successors(G, node))

\* The order in which the graph enumerates a set of nodes: by identifier.
RECURSIVE Enumerate(_)
Enumerate(S) ==
    IF S = {} THEN <<>>
    ELSE LET m == CHOOSE x \in S : \A y \in S : x <= y
         IN  <<m>> \o Enumerate(S \ {m})

----------------------------------------------------------------------------
(* hash() and sorted().                                                    *)

RECURSIVE Concat(_)
Concat(items) ==
    IF items = <<>> THEN <<>> ELSE Head(items) \o Concat(Tail(items))

\* hash(i) of a small non-negative int.
HashInt(i) == <<0, i>>

\* hash(tuple(items)): combines the hashes of the items, in order, and the
\* length.  items is the sequence of the items' hashes.
HashTuple(items) == <<1, Len(items)>> \o Concat(items)

\* a < b on hash values: a fixed total order.
ColourLess(a, b) ==
    \/ Len(a) < Len(b)
    \/ /\ Len(a) = Len(b)
       /\ \E i \in 1 .. Len(a) :
             /\ a[i] < b[i]
             /\ \A j \in 1 .. (i - 1) : a[j] = b[j]

RECURSIVE Insert(_, _)
Insert(c, s) ==
    IF s = <<>> THEN <<c>>
    ELSE IF ColourLess(Head(s), c) THEN <<Head(s)>> \o Insert(c, Tail(s))
    ELSE <<c>> \o s

\* sorted(list): ascending, duplicates kept.
RECURSIVE Sorted(_)
Sorted(s) == IF s = <<>> THEN <<>> ELSE Insert(Head(s), Sorted(Tail(s)))

----------------------------------------------------------------------------
(* The functions of wlgk.py.                                               *)

EmptyDict == <<>>

DictGet(d, k, default) == IF k \in DOMAIN d THEN d[k] ELSE default

DictSet(d, k, v) == [x \in DOMAIN d \cup {k} |-> IF x = k THEN v ELSE d[x]]

\* Variant: the degree of the node, whether or not G is directed.
_get_initial_colours_total_degree(G) ==
    [node \in Nodes(G) |-> HashInt(Degree(G, node))]

_get_initial_colours(G) ==
    IF ~G.directed
    THEN [node \in Nodes(G) |-> HashInt(Degree(G, node))]
    ELSE [node \in Nodes(G) |->
             HashTuple(<<HashInt(InDegree(G, node)), HashInt(OutDegree(G, node))>>)]

\* One pass of the loop body of _update_colour_counts.
CountColour(colour_counts_, colour) ==
    DictSet(colour_counts_, colour, DictGet(colour_counts_, colour, 0) + 1)

RECURSIVE CountColours(_, _)
CountColours(colour_counts_, colours) ==
    IF colours = <<>> THEN colour_counts_
    ELSE CountColours(CountColour(colour_counts_, Head(colours)), Tail(colours))

\* current_node_colours.values(), in the dict's order.
Values(d) == LET keys == Enumerate(DOMAIN d)
             IN  [i \in 1 .. Len(keys) |-> d[keys[i]]]

_update_colour_counts(colour_counts_, current_node_colours) ==
    CountColours(colour_counts_, Values(current_node_colours))

_new_colour_from_colour_pair(colour_1, colour_2) ==
    HashTuple(Sorted(<<colour_1, colour_2>>))

\* [node_colours[n] for n in nodes]
ColourList(nodes, node_colours_) ==
    LET e == Enumerate(nodes) IN [i \in 1 .. Len(e) |-> node_colours_[e[i]]]

\* Variant: the colour lists are hashed in enumeration order, unsorted.
_new_colour_from_neighbours_unsorted(G, node, node_colours_) ==
    IF ~G.directed
    THEN HashTuple(ColourList(Neighbors(G, node), node_colours_))
    ELSE HashTuple(<<HashTuple(ColourList(Predecessors(G, node), node_colours_)),
                     HashTuple(ColourList(Successors(G, node), node_colours_))>>)

_new_colour_from_neighbours(G, node, node_colours_) ==
    IF ~G.directed
    THEN HashTuple(Sorted(ColourList(Neighbors(G, node), node_colours_)))
    ELSE LET new_colour_predecessors ==
                 HashTuple(Sorted(ColourList(Predecessors(G, node), node_colours_)))
             new_colour_successors ==
                 HashTuple(Sorted(ColourList(Successors(G, node), node_colours_)))
         IN  HashTuple(<<new_colour_predecessors, new_colour_successors>>)

\* Variant: the new colour is also written to the map being read.
RefineNodeBodyInPlace(G, node, node_colours_, new_node_colours_) ==
    LET updated_colour_set ==
            _new_colour_from_colour_pair(
                node_colours_[node], _new_colour_from_neighbours(G, node, node_colours_))
    IN  [node_colours |-> DictSet(node_colours_, node, updated_colour_set),
         new_node_colours |-> DictSet(new_node_colours_, node, updated_colour_set)]

\* The body of the loop over G.nodes() in _compute_colour_counts: the two
\* maps after the iteration for node.
RefineNodeBody(G, node, node_colours_, new_node_colours_) ==
    LET old_colour == node_colours_[node]
        new_colour == _new_colour_from_neighbours(G, node, node_colours_)
        updated_colour_set == _new_colour_from_colour_pair(old_colour, new_colour)
    IN  [node_colours |-> node_colours_,
         new_node_colours |-> DictSet(new_node_colours_, node, updated_colour_set)]

\* Variant: one dict shared by the calls.
SharedColourCounts(previous) == previous

\* The dict a call of _compute_colour_counts starts from.
FreshColourCounts(previous) == EmptyDict

\* Variant: one round too many.
MoreRoundsInclusive(done, n) == done <= n

\* range(num_iterations): whether the loop runs another round.
MoreRounds(done, n) == done < n

\* Variant: only the first graph is checked.
EmptyShortcutFirstOnly(Ga, Gb) == Cardinality(Nodes(Ga)) = 0

\* Variant: the shortcut is taken only when both graphs are empty.
EmptyShortcutBothOnly(Ga, Gb) ==
    Cardinality(Nodes(Ga)) = 0 /\ Cardinality(Nodes(Gb)) = 0

\* The emptiness check of wlgk.
EmptyShortcut(Ga, Gb) == Cardinality(Nodes(Ga)) = 0 \/ Cardinality(Nodes(Gb)) = 0

\* Variant: the keys of the first histogram only.
UnionColoursFirstOnly(g1_colour_count_, g2_colour_count_) == DOMAIN g1_colour_count_

\* set(g1.keys()).union(set(g2.keys()))
UnionColours(g1_colour_count_, g2_colour_count_) ==
    DOMAIN g1_colour_count_ \cup DOMAIN g2_colour_count_

RECURSIVE SortedSet(_)
SortedSet(S) ==
    IF S = {} THEN <<>>
    ELSE LET m == CHOOSE x \in S : \A y \in S \ {x} : ColourLess(x, y)
         IN  <<m>> \o SortedSet(S \ {m})

Reverse(s) == [i \in 1 .. Len(s) |-> s[Len(s) + 1 - i]]

Rotate(s, k) == [i \in 1 .. Len(s) |-> s[((i + k - 1) % Len(s)) + 1]]

\* Orders in which iterating the union set may yield its elements: the
\* rotations of the ascending and of the descending order.  Both vectors are
\* built by iterating the same unmodified set, hence in the same order.
UnionOrders(S) ==
    LET a == SortedSet(S)
    IN  IF S = {} THEN {<<>>}
        ELSE {Rotate(a, k) : k \in 0 .. (Len(a) - 1)}
             \cup {Rotate(Reverse(a), k) : k \in 0 .. (Len(a) - 1)}

\* np.array([count.get(c, 0) for c in union_colours])
ColourVector(colour_count, order) ==
    [i \in 1 .. Len(order) |-> DictGet(colour_count, order[i], 0)]

RECURSIVE Dot(_, _)
Dot(v, w) == IF v = <<>> THEN 0 ELSE Head(v) * Head(w) + Dot(Tail(v), Tail(w))

One == [kind |-> "one", dot |-> 1, sq1 |-> 1, sq2 |-> 1]

NaN == [kind |-> "nan", dot |-> 0, sq1 |-> 0, sq2 |-> 0]

\* wlgk has not returned.
NoResult == [kind |-> "none", dot |-> 0, sq1 |-> 0, sq2 |-> 0]

RECURSIVE Sum(_)
Sum(v) == IF v = <<>> THEN 0 ELSE Head(v) + Sum(Tail(v))

\* Variant: each vector is divided by the sum of its entries.
_compute_wlgk_sum_normalised(g1_colour_count_, g2_colour_count_, order) ==
    LET g1_colour_vector == ColourVector(g1_colour_count_, order)
        g2_colour_vector == ColourVector(g2_colour_count_, order)
        s1 == Sum(g1_colour_vector)
        s2 == Sum(g2_colour_vector)
    IN  IF s1 = 0 \/ s2 = 0 THEN NaN
        ELSE [kind |-> "cosine", dot |-> Dot(g1_colour_vector, g2_colour_vector),
              sq1 |-> s1 * s1, sq2 |-> s2 * s2]

\* Variant: the second vector is not normalised.
_compute_wlgk_second_unnormalised(g1_colour_count_, g2_colour_count_, order) ==
    LET g1_colour_vector == ColourVector(g1_colour_count_, order)
        g2_colour_vector == ColourVector(g2_colour_count_, order)
        sq1 == Dot(g1_colour_vector, g1_colour_vector)
    IN  IF sq1 = 0 THEN NaN
        ELSE [kind |-> "cosine", dot |-> Dot(g1_colour_vector, g2_colour_vector),
              sq1 |-> sq1, sq2 |-> 1]

\* _compute_wlgk_from_colour_counts with the union iterated in `order`.
\* A zero norm makes the division 0/0 and the result nan.
_compute_wlgk_from_colour_counts(g1_colour_count_, g2_colour_count_, order) ==
    LET g1_colour_vector == ColourVector(g1_colour_count_, order)
        g2_colour_vector == ColourVector(g2_colour_count_, order)
        sq1 == Dot(g1_colour_vector, g1_colour_vector)
        sq2 == Dot(g2_colour_vector, g2_colour_vector)
    IN  IF sq1 = 0 \/ sq2 = 0 THEN NaN
        ELSE [kind |-> "cosine", dot |-> Dot(g1_colour_vector, g2_colour_vector),
              sq1 |-> sq1, sq2 |-> sq2]

----------------------------------------------------------------------------
(* Inputs.  The first graph is any graph of at most MaxNodes nodes and     *)
(* MaxEdges edges, up to the numbering of its nodes; the second is the     *)
(* first again, the first renumbered, or such a graph of at most           *)
(* MaxProbeNodes nodes.                                                    *)

EdgeSlots(n, directed) ==
    IF directed THEN {e \in (1 .. n) \X (1 .. n) : e[1] # e[2]}
    ELSE {e \in (1 .. n) \X (1 .. n) : e[1] < e[2]}

Perms(n) == {p \in [1 .. n -> 1 .. n] : \A i, j \in 1 .. n : p[i] = p[j] => i = j}

\* G with node i renamed p[i].
Relabel(G, p) ==
    [directed |-> G.directed, n |-> G.n,
     edges |-> {IF G.directed \/ p[e[1]] < p[e[2]] THEN <<p[e[1]], p[e[2]]>>
                ELSE <<p[e[2]], p[e[1]]>> : e \in G.edges}]

Relabellings(G) == {Relabel(G, p) : p \in Perms(G.n)}

Mirror(G) == Relabel(G, [i \in 1 .. G.n |-> G.n + 1 - i])

RECURSIVE Pow2(_)
Pow2(k) == IF k = 0 THEN 1 ELSE 2 * Pow2(k - 1)

RECURSIVE EdgeCode(_, _)
EdgeCode(E, n) ==
    IF E = {} THEN 0
    ELSE LET e == CHOOSE x \in E : TRUE
         IN  Pow2((e[1] - 1) * n + (e[2] - 1)) + EdgeCode(E \ {e}, n)

\* One graph of each isomorphism class: the numbering of the nodes with the
\* least edge code.  The other numberings are its Relabellings.
Canonical(G) ==
    \A H \in Relabellings(G) : EdgeCode(G.edges, G.n) <= EdgeCode(H.edges, H.n)

GraphsUpTo(maxNodes) ==
    {G \in UNION {UNION {{[directed |-> d, n |-> n, edges |-> E] :
                             E \in {X \in SUBSET EdgeSlots(n, d) :
                                       Cardinality(X) <= MaxEdges}} :
                         n \in 0 .. maxNodes} :
                  d \in BOOLEAN} :
        Canonical(G)}

----------------------------------------------------------------------------
(* The call wlgk(G1, G2, num_iterations) as a state machine.               *)

CurGraph == IF cur = 1 THEN G1 ELSE G2

Init ==
    /\ G1 \in GraphsUpTo(MaxNodes)
    /\ G2 \in GraphsUpTo(MaxProbeNodes) \cup {G1, Mirror(G1)}
    /\ num_iterations \in 0 .. MaxIter
    /\ pc = "wlgk"
    /\ cur = 1
    /\ it = 0
    /\ colour_counts = EmptyDict
    /\ node_colours = EmptyDict
    /\ new_node_colours = EmptyDict
    /\ g1_colour_count = EmptyDict
    /\ g2_colour_count = EmptyDict
    /\ ret = NoResult

\* wlgk: one or both graphs have no nodes: return 1.0.
ReturnOnEmpty ==
    /\ pc = "wlgk"
    /\ EmptyShortcut(G1, G2)
    /\ ret' = One
    /\ pc' = "done"
    /\ UNCHANGED <<G1, G2, num_iterations, cur, it, colour_counts, node_colours,
                   new_node_colours, g1_colour_count, g2_colour_count>>

\* wlgk: the graphs are not empty: call _compute_colour_counts(G1, ...).
CallComputeG1 ==
    /\ pc = "wlgk"
    /\ ~EmptyShortcut(G1, G2)
    /\ cur' = 1
    /\ pc' = "initial"
    /\ UNCHANGED <<G1, G2, num_iterations, it, colour_counts, node_colours,
                   new_node_colours, g1_colour_count, g2_colour_count, ret>>

\* _compute_colour_counts up to its loop: the round-0 pass.
InitialPass ==
    /\ pc = "initial"
    /\ node_colours' = _get_initial_colours(CurGraph)
    /\ colour_counts' =
           _update_colour_counts(FreshColourCounts(colour_counts), node_colours')
    /\ new_node_colours' = EmptyDict
    /\ it' = 0
    /\ pc' = "loop"
    /\ UNCHANGED <<G1, G2, num_iterations, cur, g1_colour_count, g2_colour_count, ret>>

\* for _ in range(num_iterations): new_node_colours = dict()
BeginRound ==
    /\ pc = "loop"
    /\ MoreRounds(it, num_iterations)
    /\ new_node_colours' = EmptyDict
    /\ pc' = "nodes"
    /\ UNCHANGED <<G1, G2, num_iterations, cur, it, colour_counts, node_colours,
                   g1_colour_count, g2_colour_count, ret>>

\* for node in G.nodes(): one iteration, for the node the graph yields next
\* (G.nodes() may enumerate the nodes in any order).
RefineNode ==
    /\ pc = "nodes"
    /\ \E node \in Nodes(CurGraph) \ DOMAIN new_node_colours :
          LET after == RefineNodeBody(CurGraph, node, node_colours, new_node_colours)
          IN  /\ node_colours' = after.node_colours
              /\ new_node_colours' = after.new_node_colours
    /\ UNCHANGED <<G1, G2, num_iterations, pc, cur, it, colour_counts,
                   g1_colour_count, g2_colour_count, ret>>

\* The end of a round: node_colours = new_node_colours, then the pass.
EndRound ==
    /\ pc = "nodes"
    /\ Nodes(CurGraph) \ DOMAIN new_node_colours = {}
    /\ node_colours' = new_node_colours
    /\ colour_counts' = _update_colour_counts(colour_counts, node_colours')
    /\ it' = it + 1
    /\ pc' = "loop"
    /\ UNCHANGED <<G1, G2, num_iterations, cur, new_node_colours,
                   g1_colour_count, g2_colour_count, ret>>

\* return colour_counts, to g1_colour_count; call it for G2.
ReturnCountsG1 ==
    /\ pc = "loop"
    /\ ~MoreRounds(it, num_iterations)
    /\ cur = 1
    /\ g1_colour_count' = colour_counts
    /\ cur' = 2
    /\ pc' = "initial"
    /\ UNCHANGED <<G1, G2, num_iterations, it, colour_counts, node_colours,
                   new_node_colours, g2_colour_count, ret>>

\* return colour_counts, to g2_colour_count.
ReturnCountsG2 ==
    /\ pc = "loop"
    /\ ~MoreRounds(it, num_iterations)
    /\ cur = 2
    /\ g2_colour_count' = colour_counts
    /\ pc' = "compare"
    /\ UNCHANGED <<G1, G2, num_iterations, cur, it, colour_counts, node_colours,
                   new_node_colours, g1_colour_count, ret>>

\* return _compute_wlgk_from_colour_counts(g1_colour_count, g2_colour_count)
Compare ==
    /\ pc = "compare"
    /\ \E order \in UnionOrders(UnionColours(g1_colour_count, g2_colour_count)) :
          ret' = _compute_wlgk_from_colour_counts(g1_colour_count, g2_colour_count, order)
    /\ pc' = "done"
    /\ UNCHANGED <<G1, G2, num_iterations, cur, it, colour_counts, node_colours,
                   new_node_colours, g1_colour_count, g2_colour_count>>

Next ==
    \/ ReturnOnEmpty
    \/ CallComputeG1
    \/ InitialPass
    \/ BeginRound
    \/ RefineNode
    \/ EndRound
    \/ ReturnCountsG1
    \/ ReturnCountsG2
    \/ Compare

Spec == Init /\ [][Next]_vars

----------------------------------------------------------------------------
(* The same functions as functions of their arguments.                     *)

\* One round of the loop of _compute_colour_counts: the map that replaces
\* node_colours.
RefineAll(G, previous) ==
    [node \in Nodes(G) |->
        RefineNodeBody(G, node, previous, EmptyDict).new_node_colours[node]]

\* <<node_colours after round 0, ..., node_colours after round n>>
RECURSIVE ColourRounds(_, _)
ColourRounds(G, n) ==
    IF n = 0 THEN <<_get_initial_colours(G)>>
    ELSE LET history == ColourRounds(G, n - 1)
         IN  Append(history, RefineAll(G, history[Len(history)]))

\* node_colours after `round` rounds.
ColoursAtRound(G, round) == ColourRounds(G, round)[round + 1]

RECURSIVE CountRounds(_, _)
CountRounds(colour_counts_, rounds) ==
    IF rounds = <<>> THEN colour_counts_
    ELSE CountRounds(_update_colour_counts(colour_counts_, Head(rounds)), Tail(rounds))

\* colour_counts after the round-0 pass and `round` more rounds.
CountsAfterRound(G, round) ==
    CountRounds(FreshColourCounts(EmptyDict), ColourRounds(G, round))

\* _compute_colour_counts(G, n)
ColourCountsOf(G, n) == CountsAfterRound(G, n)

\* The values wlgk(Ga, Gb, n) may return, one for each order in which the
\* union of the colours may be iterated.
WlgkResults(Ga, Gb, n) ==
    IF EmptyShortcut(Ga, Gb) THEN {One}
    ELSE UNION {UNION {{_compute_wlgk_from_colour_counts(ha, hb, order) :
                           order \in UnionOrders(UnionColours(ha, hb))} :
                       hb \in {ColourCountsOf(Gb, n)}} :
                ha \in {ColourCountsOf(Ga, n)}}

----------------------------------------------------------------------------
(* Vocabulary of the properties.                                           *)

RECURSIVE SumOver(_, _)
SumOver(d, keys) ==
    IF keys = {} THEN 0
    ELSE LET k == CHOOSE x \in keys : TRUE IN d[k] + SumOver(d, keys \ {k})

\* The total of a histogram's counts.
Total(d) == SumOver(d, DOMAIN d)

\* The float a result record stands for is 1.0.
IsOne(r) ==
    \/ r.kind = "one"
    \/ r.kind = "cosine" /\ r.dot > 0 /\ r.dot * r.dot = r.sq1 * r.sq2

\* Two result records stand for the same float.
SameValue(r, s) ==
    /\ r.kind = s.kind
    /\ r.dot = s.dot
    /\ r.sq1 * r.sq2 = s.sq1 * s.sq2

\* The multiset of the colours of a set of nodes.
ColourBag(nodes, colours) ==
    [c \in {colours[x] : x \in nodes} |-> Cardinality({x \in nodes : colours[x] = c})]

NonEmpty(G) == G.n > 0

----------------------------------------------------------------------------
(* Properties.                                                             *)

\* C1: when G1 or G2 has no nodes, wlgk returns exactly 1.0 and nothing else
\* runs: control is only ever at the entry or at the return, the value
\* returned is the literal 1.0, and no colouring, histogram or comparator
\* variable has been written.
C1_EmptyGraphReturnsOne ==
    (G1.n = 0 \/ G2.n = 0) =>
        /\ pc \in {"wlgk", "done"}
        /\ pc = "done" => ret = One
        /\ pc = "wlgk" => ret = NoResult
        /\ cur = 1 /\ it = 0
        /\ colour_counts = EmptyDict /\ node_colours = EmptyDict
        /\ new_node_colours = EmptyDict
        /\ g1_colour_count = EmptyDict /\ g2_colour_count = EmptyDict

C1_Witness == pc = "done" /\ G1.n > 0 /\ G2.n = 0 /\ ret = One

\* C2: wlgk(G, G) is 1.0 for every non-empty G and every num_iterations:
\* both pipelines return the same histogram h, and the result stands for
\* dot(h, h) / (|h| * |h|) with dot(h, h)^2 = |h|^2 * |h|^2.
C2_Identity ==
    (pc = "done" /\ G1 = G2 /\ NonEmpty(G1)) =>
        /\ g1_colour_count = g2_colour_count
        /\ ret.kind = "cosine"
        /\ ret.dot > 0
        /\ ret.dot = ret.sq1 /\ ret.dot = ret.sq2
        /\ ret.dot * ret.dot = ret.sq1 * ret.sq2

C2_Witness ==
    /\ pc = "done" /\ G1 = G2 /\ IsOne(ret)
    /\ G1.directed /\ G1.n = MaxNodes
    /\ \A v \in Nodes(G1) : InDegree(G1, v) = 1 /\ OutDegree(G1, v) = 1
    /\ Cardinality(DOMAIN g1_colour_count) > 1

\* C3: for non-empty G1 and G2 the result lies in [0, 1]: it is the cosine of
\* the two histograms h1, h2 over the union of their colours, with
\* dot(h1, h2) >= 0 and dot(h1, h2)^2 <= |h1|^2 * |h2|^2.
C3_Range ==
    (pc = "done" /\ NonEmpty(G1) /\ NonEmpty(G2)) =>
        /\ ret.kind = "cosine"
        /\ ret.sq1 = Total([c \in DOMAIN g1_colour_count |->
                               g1_colour_count[c] * g1_colour_count[c]])
        /\ ret.sq2 = Total([c \in DOMAIN g2_colour_count |->
                               g2_colour_count[c] * g2_colour_count[c]])
        /\ ret.dot = Total([c \in DOMAIN g1_colour_count \cap DOMAIN g2_colour_count |->
                               g1_colour_count[c] * g2_colour_count[c]])
        /\ ret.dot >= 0
        /\ ret.dot * ret.dot <= ret.sq1 * ret.sq2

C3_Witness ==
    /\ pc = "done" /\ ret.kind = "cosine"
    /\ ret.dot > 0
    /\ ret.dot * ret.dot < ret.sq1 * ret.sq2

\* C4: wlgk(G1, G2) = wlgk(G2, G1): whatever the order in which the union of
\* the colours is iterated, in either call, the value is the one returned;
\* with an empty graph both calls return 1.0.
C4_Symmetry ==
    pc = "done" =>
        /\ \A r \in WlgkResults(G2, G1, num_iterations) : SameValue(r, ret)
        /\ \A r \in WlgkResults(G1, G2, num_iterations) : SameValue(r, ret)

C4_Witness ==
    /\ pc = "done" /\ ret.kind = "cosine"
    /\ G1.n # G2.n
    /\ ret.dot > 0
    /\ ret.sq1 # ret.sq2
    /\ DOMAIN g1_colour_count # DOMAIN g2_colour_count

\* C5: the histogram's counts sum to (rounds done + 1) * node_count after the
\* round-0 pass and after every round, there are at most num_iterations
\* rounds, and the histogram returned sums to
\* (num_iterations + 1) * node_count.
C5_HistogramTotal ==
    /\ pc \in {"loop", "nodes"} =>
          /\ it <= num_iterations
          /\ Total(colour_counts) = (it + 1) * CurGraph.n
    /\ pc = "nodes" => it < num_iterations
    /\ cur = 2 => Total(g1_colour_count) = (num_iterations + 1) * G1.n
    /\ pc = "compare" => Total(g2_colour_count) = (num_iterations + 1) * G2.n

C5_Witness ==
    /\ pc = "compare" /\ num_iterations = MaxIter
    /\ G1.n = MaxNodes
    /\ Total(g1_colour_count) = (MaxIter + 1) * MaxNodes
    /\ Cardinality(DOMAIN g1_colour_count) < Total(g1_colour_count)

\* C6: when the comparator is reached both graphs have a node, both
\* histograms are non-empty with every count >= 1, both count vectors have a
\* positive squared norm for every order of the union, and the result is not
\* the nan of a division by zero.
C6_NoZeroNorm ==
    /\ pc = "compare" =>
          /\ NonEmpty(G1) /\ NonEmpty(G2)
          /\ g1_colour_count # EmptyDict /\ g2_colour_count # EmptyDict
          /\ \A c \in DOMAIN g1_colour_count : g1_colour_count[c] >= 1
          /\ \A c \in DOMAIN g2_colour_count : g2_colour_count[c] >= 1
          /\ \A order \in UnionOrders(UnionColours(g1_colour_count, g2_colour_count)) :
                LET v1 == ColourVector(g1_colour_count, order)
                    v2 == ColourVector(g2_colour_count, order)
                IN  Dot(v1, v1) > 0 /\ Dot(v2, v2) > 0
    /\ pc = "done" => ret.kind # "nan"

C6_Witness ==
    /\ pc = "compare" /\ num_iterations = 0
    /\ G1.n = 1 /\ G2.n = 1 /\ G1.directed # G2.directed

\* C7 (state part): during a round every colour already written for the new
\* round is the one computed from the previous round's map, which still
\* holds a colour for exactly the nodes of the graph.
C7_NewFromSnapshot ==
    pc = "nodes" =>
        /\ DOMAIN node_colours = Nodes(CurGraph)
        /\ DOMAIN new_node_colours \subseteq Nodes(CurGraph)
        /\ \A v \in DOMAIN new_node_colours :
              new_node_colours[v] =
                  _new_colour_from_colour_pair(
                      node_colours[v],
                      _new_colour_from_neighbours(CurGraph, v, node_colours))

\* C7 (step part): processing a node leaves the previous round's map and the
\* colours already written alone; the map changes only when every node has
\* been processed, and then to the new map, whose keys are the node set.
C7_Step ==
    /\ (pc = "nodes" /\ pc' = "nodes") =>
          /\ node_colours' = node_colours
          /\ \A v \in DOMAIN new_node_colours :
                v \in DOMAIN new_node_colours' /\ new_node_colours'[v] = new_node_colours[v]
    /\ (pc = "nodes" /\ node_colours' # node_colours) =>
          /\ DOMAIN new_node_colours = Nodes(CurGraph)
          /\ node_colours' = new_node_colours
    /\ (pc = "nodes" /\ pc' = "loop") =>
          /\ node_colours' = new_node_colours
          /\ DOMAIN node_colours' = Nodes(CurGraph)

\* C7: snapshot semantics of a refinement round: each new colour is computed
\* from the round-k map only, in whatever order the nodes are processed; the
\* round-k map is not modified while the round runs and is replaced by the
\* new map only after all nodes are processed.
C7_Snapshot == []C7_NewFromSnapshot /\ [][C7_Step]_vars

C7_Witness ==
    /\ pc = "nodes" /\ it >= 1
    /\ \E u \in DOMAIN new_node_colours :
          \E v \in Nodes(CurGraph) \ DOMAIN new_node_colours :
              /\ u > v
              /\ u \in Neighbors(CurGraph, v)
              /\ new_node_colours[u] # node_colours[u]

\* Whether node u of Ga and node v of Gb have structurally equivalent inputs
\* at `round`, given the colours ca, cb of the previous round.
EquivalentInputs(Ga, u, ca, Gb, v, cb, round) ==
    /\ Ga.directed = Gb.directed
    /\ IF round = 0
       THEN IF Ga.directed
            THEN /\ InDegree(Ga, u) = InDegree(Gb, v)
                 /\ OutDegree(Ga, u) = OutDegree(Gb, v)
            ELSE Degree(Ga, u) = Degree(Gb, v)
       ELSE /\ ca[u] = cb[v]
            /\ IF Ga.directed
               THEN /\ ColourBag(Predecessors(Ga, u), ca) = ColourBag(Predecessors(Gb, v), cb)
                    /\ ColourBag(Successors(Ga, u), ca) = ColourBag(Successors(Gb, v), cb)
               ELSE ColourBag(Neighbors(Ga, u), ca) = ColourBag(Neighbors(Gb, v), cb)

\* C8: with a collision-free hash, two nodes of the graphs of one call have
\* equal colours at a round iff their inputs are structurally equivalent:
\* at round 0 the same degree (or in- and out-degree), at round k >= 1 the
\* same previous colour and the same multiset(s) of neighbour colours.
C8_ColourEquality ==
    pc = "compare" =>
        \A c1 \in {ColourRounds(G1, num_iterations)} :
        \A c2 \in {ColourRounds(G2, num_iterations)} :
            LET graphs == <<G1, G2>>
                colours == <<c1, c2>>
                before(g, k) == IF k = 0 THEN EmptyDict ELSE colours[g][k]
            IN  \A k \in 0 .. num_iterations : \A ga, gb \in 1 .. 2 :
                    \A u \in Nodes(graphs[ga]) : \A v \in Nodes(graphs[gb]) :
                        (colours[ga][k + 1][u] = colours[gb][k + 1][v])
                            <=> EquivalentInputs(graphs[ga], u, before(ga, k),
                                                 graphs[gb], v, before(gb, k), k)

C8_Witness ==
    /\ pc = "compare" /\ num_iterations = MaxIter /\ G1 # G2
    /\ \E u \in Nodes(G1) : \E v \in Nodes(G2) :
          /\ ColoursAtRound(G1, 0)[u] = ColoursAtRound(G2, 0)[v]
          /\ ColoursAtRound(G1, 1)[u] # ColoursAtRound(G2, 1)[v]
    /\ \E u, v \in Nodes(G1) :
          u # v /\ ColoursAtRound(G1, MaxIter)[u] = ColoursAtRound(G1, MaxIter)[v]

\* C9 (step part): no step changes either graph or num_iterations, and
\* processing G2 leaves the histogram of G1 alone.
C9_Frame ==
    /\ G1' = G1 /\ G2' = G2 /\ num_iterations' = num_iterations
    /\ cur = 2 => g1_colour_count' = g1_colour_count
    /\ cur = 1 => g2_colour_count' = g2_colour_count

\* C9 (state part): each call of _compute_colour_counts starts from an empty
\* histogram, so each histogram is the one of its own graph alone.
C9_OwnHistogram ==
    /\ (pc = "loop" /\ it = 0) =>
          colour_counts = _update_colour_counts(EmptyDict, node_colours)
    /\ cur = 2 => g1_colour_count = CountsAfterRound(G1, num_iterations)
    /\ pc = "compare" =>
          /\ g2_colour_count = CountsAfterRound(G2, num_iterations)
          /\ G1 = G2 => g1_colour_count = g2_colour_count

\* C9: independence of the two pipelines: the graphs are never changed, the
\* histogram of one graph is not changed by processing the other, and it is
\* the same whatever the other graph is, also when both are the same graph.
C9_Independence == []C9_OwnHistogram /\ [][C9_Frame]_vars

C9_Witness ==
    /\ pc = "compare" /\ G1 = G2 /\ NonEmpty(G1) /\ num_iterations > 0
    /\ g1_colour_count = g2_colour_count
    /\ colour_counts = g2_colour_count

\* C10: renaming the nodes of a non-empty graph changes neither its
\* histogram nor, hence, any kernel value: every renaming of G1 has the
\* histogram of G1, wlgk(G, p(G)) is 1.0, and wlgk(p(G1), G2) is the value
\* returned for (G1, G2).
C10_RelabellingInvariance ==
    /\ (pc = "compare" /\ G2 \in Relabellings(G1)) =>
          /\ g1_colour_count = g2_colour_count
          /\ \A H \in Relabellings(G1) :
                CountsAfterRound(H, num_iterations) = g1_colour_count
    /\ (pc = "done" /\ NonEmpty(G1) /\ G2 \in Relabellings(G1)) => IsOne(ret)
    /\ pc = "done" =>
          \A r \in WlgkResults(Mirror(G1), G2, num_iterations) : SameValue(r, ret)

C10_Witness ==
    /\ pc = "done" /\ G2 = Mirror(G1) /\ G2 # G1 /\ IsOne(ret)
    /\ num_iterations > 0
    /\ \E v \in Nodes(G1) : \E a, b \in Predecessors(G1, v) :
          InDegree(G1, a) # InDegree(G1, b)

====
